---- MODULE Spec2Model ----
(***************************************************************************)
(* Verification model of the charity MCP server's core.                    *)
(*                                                                         *)
(* Part 1: the in-memory sliding-window RateLimiter                        *)
(* (dist/services/rate-limiter.js).  The limiter keeps a Map from          *)
(* identifier to an array of admission timestamps; every method reads the  *)
(* wall clock (Date.now()) once on entry and runs to completion without    *)
(* awaiting, so each method is one atomic action.                          *)
(*                                                                         *)
(* Part 2: the HTTP client CharityAPIClient (services/charity-api): one    *)
(* client call, its attempts against the upstream, the response            *)
(* interceptor's error mapping and the retry loop with its backoff waits.  *)
(*                                                                         *)
(* Part 3: the four tool handlers (tools/*.ts) as the event loop runs      *)
(* them: several invocations in flight, each validating its input, asking  *)
(* the limiter, and then awaiting the client while the others and the      *)
(* periodic cleanup go on.                                                 *)
(***************************************************************************)
EXTENDS Integers, Sequences, FiniteSets, TLC

\* ---- bounds ------------------------------------------------------------
MaxReq == 3          \* maxRequests is drawn from 0..MaxReq
MaxWindow == 3       \* windowMs is drawn from 1..MaxWindow
MaxTime == 4         \* the clock runs over 0..MaxTime
MaxBurst == MaxReq + 2   \* saturation point of the same-instant call counter
Keys == {"global", "user1"}   \* identifiers; "global" is the default argument
MaxRetries == 3      \* config.maxRetries is drawn from 0..MaxRetries
RetryDelays == {1, 100}   \* config.retryDelay, in milliseconds

VARIABLES
    requests,     \* this.requests : Map<identifier, number[]>
    windowMs,     \* this.windowMs
    maxRequests,  \* this.maxRequests
    now,          \* the value Date.now() returns
    last,         \* the last call: its name, argument, return value, and the map before it
    burst,        \* per key: admit calls at the current instant since the bucket was empty (-1: not tracked)
    admitted,     \* per key and instant t > now - windowMs: how many admit calls returned true at t
    solo,         \* per key: the map of a reference limiter that only ever saw the calls on that key
    maxRetries,   \* this.config.maxRetries
    retryDelay,   \* this.config.retryDelay
    call,         \* one client call: where it stands, its attempts, its waits, its outcome
    calls,        \* the client calls of two concurrent callers, one record each
    inflight      \* the tool-handler invocations in flight, one record each

limiterVars == <<requests, windowMs, maxRequests, now, last, burst, admitted, solo>>
clientVars == <<maxRetries, retryDelay, call>>
serverVars == <<calls, inflight>>
vars == <<limiterVars, clientVars, serverVars>>

\* ---- Map<string, number[]> ---------------------------------------------
EmptyMap == [x \in {} |-> <<>>]

\* this.requests.get(identifier) || []
MapGet(map, identifier) == IF identifier \in DOMAIN map THEN map[identifier] ELSE <<>>

\* this.requests.set(identifier, value)
MapSet(map, identifier, value) ==
    [x \in (DOMAIN map) \cup {identifier} |-> IF x = identifier THEN value ELSE map[x]]

\* this.requests.delete(identifier)
MapDelete(map, identifier) == [x \in (DOMAIN map) \ {identifier} |-> map[x]]

Max(a, b) == IF a >= b THEN a ELSE b

\* ---- RateLimiter, as functions of the map and the clock reading --------

\* the filter predicate: time => now - time < this.windowMs
inWindow_inclusive(time, t) == t - time <= windowMs

inWindow_early(time, t) == t - time < windowMs - 1

inWindow(time, t) == t - time < windowMs

\* requests.filter(time => now - time < this.windowMs)
filter(reqs, t) == SelectSeq(reqs, LAMBDA time : inWindow(time, t))

\* validRequests.length >= this.maxRequests
limitReached_offByOne(valid) == Len(valid) > maxRequests

limitReached(valid) == Len(valid) >= maxRequests

\* checkRateLimit: the returned boolean and the map after the call
checkRateLimitOn_double(map, identifier, t) ==
    LET valid == filter(MapGet(map, identifier), t)
    IN  IF limitReached(valid)
        THEN [ret |-> FALSE, map |-> MapSet(map, identifier, valid)]
        ELSE [ret |-> TRUE, map |-> MapSet(map, identifier, Append(Append(valid, t), t))]

checkRateLimitOn_shared(map, identifier, t) ==
    LET valid == filter(MapGet(map, "global"), t)
    IN  IF limitReached(valid)
        THEN [ret |-> FALSE, map |-> map]
        ELSE [ret |-> TRUE, map |-> MapSet(map, "global", Append(valid, t))]

checkRateLimitOn_keepStale(map, identifier, t) ==
    LET valid == filter(MapGet(map, identifier), t)
    IN  IF limitReached(valid)
        THEN [ret |-> FALSE, map |-> map]
        ELSE [ret |-> TRUE, map |-> MapSet(map, identifier, Append(MapGet(map, identifier), t))]

checkRateLimitOn_torn(map, identifier, t) ==
    LET valid == filter(MapGet(last.before, identifier), t)
    IN  IF limitReached(valid)
        THEN [ret |-> FALSE, map |-> map]
        ELSE [ret |-> TRUE, map |-> MapSet(map, identifier, Append(valid, t))]

checkRateLimitOn(map, identifier, t) ==
    LET valid == filter(MapGet(map, identifier), t)
    IN  IF limitReached(valid)
        THEN [ret |-> FALSE, map |-> map]
        ELSE [ret |-> TRUE, map |-> MapSet(map, identifier, Append(valid, t))]

\* getRemainingRequests: Math.max(0, this.maxRequests - validRequests.length)
getRemainingRequestsOn_unfiltered(map, identifier, t) ==
    Max(0, maxRequests - Len(MapGet(map, identifier)))

getRemainingRequestsOn(map, identifier, t) ==
    LET valid == filter(MapGet(map, identifier), t)
    IN  Max(0, maxRequests - Len(valid))

\* Math.min(...requests), for a non-empty array
mathMin(reqs) ==
    CHOOSE m \in {reqs[i] : i \in DOMAIN reqs} : \A i \in DOMAIN reqs : m <= reqs[i]

\* getResetTime: 0 for an empty array, else oldestRequest + this.windowMs
getResetTimeOn_newest(map, identifier) ==
    LET reqs == MapGet(map, identifier)
    IN  IF Len(reqs) = 0 THEN 0 ELSE reqs[Len(reqs)] + windowMs

getResetTimeOn(map, identifier) ==
    LET reqs == MapGet(map, identifier)
    IN  IF Len(reqs) = 0 THEN 0 ELSE mathMin(reqs) + windowMs

\* cleanup: the for-of loop over this.requests.entries().  Deleting or
\* re-setting the entry being visited does not disturb a Map iteration, and
\* each iteration touches only its own key, so the visiting order is immaterial.
RECURSIVE cleanupLoop_noWriteBack(_, _, _)
cleanupLoop_noWriteBack(map, todo, t) ==
    IF todo = {} THEN map
    ELSE LET identifier == CHOOSE x \in todo : TRUE
             valid == filter(map[identifier], t)
         IN  cleanupLoop_noWriteBack(
                 IF Len(valid) = 0 THEN MapDelete(map, identifier) ELSE map,
                 todo \ {identifier}, t)

RECURSIVE cleanupLoop_stopAfterDelete(_, _, _)
cleanupLoop_stopAfterDelete(map, todo, t) ==
    IF todo = {} THEN map
    ELSE LET identifier == CHOOSE x \in todo : TRUE
             valid == filter(map[identifier], t)
         IN  IF Len(valid) = 0
             THEN MapDelete(map, identifier)
             ELSE cleanupLoop_stopAfterDelete(MapSet(map, identifier, valid),
                                              todo \ {identifier}, t)

RECURSIVE cleanupLoop(_, _, _)
cleanupLoop(map, todo, t) ==
    IF todo = {} THEN map
    ELSE LET identifier == CHOOSE x \in todo : TRUE
             valid == filter(map[identifier], t)
         IN  cleanupLoop(
                 IF Len(valid) = 0
                 THEN MapDelete(map, identifier)
                 ELSE MapSet(map, identifier, valid),
                 todo \ {identifier}, t)

cleanupOn_staleCopy(map, t) == cleanupLoop(last.before, DOMAIN last.before, t)

cleanupOn(map, t) == cleanupLoop(map, DOMAIN map, t)

\* ---- state machine -----------------------------------------------------

\* new RateLimiter(maxRequests, windowMs): an empty map
Init ==
    /\ maxRequests \in 0..MaxReq
    /\ windowMs \in 1..MaxWindow
    /\ requests = EmptyMap
    /\ now = 0
    /\ last = [op |-> "init", key |-> "", val |-> 0, solo |-> 0, before |-> EmptyMap]
    /\ burst = [k \in Keys |-> 0]
    /\ admitted = [k \in Keys |-> [t \in 0..MaxTime |-> 0]]
    /\ solo = [k \in Keys |-> EmptyMap]
    /\ maxRetries = 0
    /\ retryDelay = 1
    /\ call = [pc |-> "idle", op |-> "none", retryCount |-> 0, attempts |-> <<>>,
               waits |-> <<>>, outcome |-> [kind |-> "none"], abandoned |-> FALSE,
               attemptsAtAbandon |-> 0]
    /\ calls = <<>>
    /\ inflight = <<>>

\* Date.now() moves on by one millisecond.  The admission log forgets the
\* instants that no window ending at the new clock value or later can contain;
\* the windows ending earlier were complete when the clock read their end.
Tick ==
    /\ now < MaxTime
    /\ now' = now + 1
    /\ last' = [op |-> "tick", key |-> "", val |-> 0, solo |-> 0, before |-> requests]
    /\ burst' = [k \in Keys |-> IF MapGet(requests, k) = <<>> THEN 0 ELSE -1]
    /\ admitted' = [k \in Keys |-> [t \in 0..MaxTime |->
                        IF t + windowMs > now + 1 THEN admitted[k][t] ELSE 0]]
    /\ UNCHANGED <<clientVars, serverVars, requests, windowMs, maxRequests, solo>>

\* await rateLimiter.checkRateLimit(identifier)
checkRateLimit(identifier) ==
    LET r == checkRateLimitOn(requests, identifier, now)
        s == checkRateLimitOn(solo[identifier], identifier, now)
    IN  /\ requests' = r.map
        /\ solo' = [solo EXCEPT ![identifier] = s.map]
        /\ last' = [op |-> "admit", key |-> identifier, val |-> r.ret,
                    solo |-> s.ret, before |-> requests]
        /\ burst' = [burst EXCEPT ![identifier] =
                        IF @ = -1 THEN -1 ELSE IF @ < MaxBurst THEN @ + 1 ELSE @]
        /\ admitted' = IF r.ret
                       THEN [admitted EXCEPT ![identifier][now] = @ + 1]
                       ELSE admitted
        /\ UNCHANGED <<clientVars, serverVars, windowMs, maxRequests, now>>

\* rateLimiter.getRemainingRequests(identifier)
getRemainingRequests_storing(identifier) ==
    /\ last' = [op |-> "remaining", key |-> identifier,
                val |-> getRemainingRequestsOn(requests, identifier, now),
                solo |-> getRemainingRequestsOn(solo[identifier], identifier, now),
                before |-> requests]
    /\ requests' = MapSet(requests, identifier, filter(MapGet(requests, identifier), now))
    /\ UNCHANGED <<clientVars, serverVars, windowMs, maxRequests, now, burst, admitted, solo>>

getRemainingRequests(identifier) ==
    /\ last' = [op |-> "remaining", key |-> identifier,
                val |-> getRemainingRequestsOn(requests, identifier, now),
                solo |-> getRemainingRequestsOn(solo[identifier], identifier, now),
                before |-> requests]
    /\ UNCHANGED <<clientVars, serverVars, requests, windowMs, maxRequests, now, burst, admitted, solo>>

\* rateLimiter.getResetTime(identifier)
getResetTime(identifier) ==
    /\ last' = [op |-> "resetAt", key |-> identifier,
                val |-> getResetTimeOn(requests, identifier),
                solo |-> getResetTimeOn(solo[identifier], identifier),
                before |-> requests]
    /\ UNCHANGED <<clientVars, serverVars, requests, windowMs, maxRequests, now, burst, admitted, solo>>

\* rateLimiter.cleanup()
cleanup ==
    /\ requests' = cleanupOn(requests, now)
    /\ solo' = [k \in Keys |-> cleanupOn(solo[k], now)]
    /\ last' = [op |-> "cleanup", key |-> "", val |-> 0, solo |-> 0, before |-> requests]
    /\ burst' = [k \in Keys |->
                    IF burst[k] = -1 /\ k \notin DOMAIN requests' THEN 0 ELSE burst[k]]
    /\ UNCHANGED <<clientVars, serverVars, windowMs, maxRequests, now, admitted>>

Next ==
    \/ Tick
    \/ \E identifier \in Keys : checkRateLimit(identifier)
    \/ \E identifier \in Keys : getRemainingRequests(identifier)
    \/ \E identifier \in Keys : getResetTime(identifier)
    \/ cleanup

Spec == Init /\ [][Next]_vars

\* ---- CharityAPIClient ---------------------------------------------------

\* the value of error.response?.status when there is no response
Undefined == -1

\* the client's operations, each one `await this.retryRequest(() => this.client.get(...))`
Operations == {"getOrganizationByEIN", "checkPublicCharity", "searchCharities", "listOrganizations"}

\* what the upstream does with one attempt: an HTTP response with a status, or
\* no response at all (connection failure, or the axios timeout expiring)
Statuses == {400, 401, 403, 404, 429, 500, 503}
Replies == {[kind |-> "response", status |-> s] : s \in Statuses \cup {200}}
               \cup {[kind |-> "none", status |-> Undefined]}

\* axios resolves for a 2xx status (the default validateStatus)
isSuccess(reply) == reply.kind = "response" /\ reply.status >= 200 /\ reply.status < 300

\* response.data of the n-th attempt
Payload(n) == [data |-> "body", attempt |-> n]

\* the AxiosError of the n-th attempt; error.response exists only when the
\* upstream answered
AxiosError(reply, n) ==
    IF reply.kind = "response"
    THEN [name |-> "AxiosError", attempt |-> n,
          message |-> <<"Request failed with status code", ToString(reply.status)>>,
          response |-> [status |-> reply.status]]
    ELSE [name |-> "AxiosError", attempt |-> n, message |-> <<"Network Error">>]

\* new CharityAPIError(message, statusCode, originalError)
CharityAPIError(message, statusCode, originalError) ==
    [name |-> "CharityAPIError", message |-> message,
     statusCode |-> statusCode, originalError |-> originalError]

\* error.response?.status
responseStatus(error) ==
    IF "response" \in DOMAIN error THEN error.response.status ELSE Undefined

handleAxiosError_no429(error) ==
    LET status == responseStatus(error)
    IN  CASE status = 400 -> CharityAPIError(<<"Invalid request parameters">>, status, error)
          [] status = 401 -> CharityAPIError(<<"Invalid API key or unauthorized">>, status, error)
          [] status = 403 -> CharityAPIError(<<"Access forbidden - check API permissions">>, status, error)
          [] status = 404 -> CharityAPIError(<<"Charity not found">>, status, error)
          [] status = 500 -> CharityAPIError(<<"Internal server error">>, status, error)
          [] OTHER -> CharityAPIError(<<"API request failed: ">> \o error.message, status, error)

\* handleAxiosError: the response interceptor's rejection handler; the value
\* is the error it throws
handleAxiosError(error) ==
    LET status == responseStatus(error)
    IN  CASE status = 400 -> CharityAPIError(<<"Invalid request parameters">>, status, error)
          [] status = 401 -> CharityAPIError(<<"Invalid API key or unauthorized">>, status, error)
          [] status = 403 -> CharityAPIError(<<"Access forbidden - check API permissions">>, status, error)
          [] status = 404 -> CharityAPIError(<<"Charity not found">>, status, error)
          [] status = 429 -> CharityAPIError(<<"Rate limit exceeded">>, status, error)
          [] status = 500 -> CharityAPIError(<<"Internal server error">>, status, error)
          [] OTHER -> CharityAPIError(<<"API request failed: ">> \o error.message, status, error)

isRetryableError_responseOnly(error) ==
    IF "response" \notin DOMAIN error
    THEN FALSE
    ELSE error.response.status >= 500 \/ error.response.status = 429

\* isRetryableError(error): !error.response, else status >= 500 || status === 429
isRetryableError(error) ==
    IF "response" \notin DOMAIN error
    THEN TRUE
    ELSE error.response.status >= 500 \/ error.response.status = 429

shouldRetry_inclusive(retryCount, error) == retryCount <= maxRetries /\ isRetryableError(error)

\* retryCount < this.config.maxRetries && isRetryable
shouldRetry(retryCount, error) == retryCount < maxRetries /\ isRetryableError(error)

backoffDelay_linear(retryCount) == retryDelay * (retryCount + 1)

\* this.config.retryDelay * Math.pow(2, retryCount)
backoffDelay(retryCount) == retryDelay * (2 ^ retryCount)

\* a call that has not been made
IdleCall ==
    [pc |-> "idle", op |-> "none", retryCount |-> 0, attempts |-> <<>>, waits |-> <<>>,
     outcome |-> [kind |-> "none"], abandoned |-> FALSE, attemptsAtAbandon |-> 0]

retryRequestCatch_firstError(c, error) ==
    IF shouldRetry(c.retryCount, error)
    THEN [c EXCEPT !.pc = "delay", !.waits = Append(@, backoffDelay(c.retryCount))]
    ELSE [c EXCEPT !.pc = "done",
                   !.outcome = [kind |-> "throw",
                                error |-> handleAxiosError(AxiosError(c.attempts[1], 1))]]

retryRequestCatch_swallow(c, error) ==
    IF shouldRetry(c.retryCount, error)
    THEN [c EXCEPT !.pc = "delay", !.waits = Append(@, backoffDelay(c.retryCount))]
    ELSE [c EXCEPT !.pc = "done", !.outcome = [kind |-> "return", data |-> Undefined]]

\* the catch block of retryRequest, entered with the error requestFn rejected
\* with: either wait and retry, or rethrow (the operation's own catch logs and
\* rethrows the same error)
retryRequestCatch(c, error) ==
    IF shouldRetry(c.retryCount, error)
    THEN [c EXCEPT !.pc = "delay", !.waits = Append(@, backoffDelay(c.retryCount))]
    ELSE [c EXCEPT !.pc = "done", !.outcome = [kind |-> "throw", error |-> error]]

\* the pending requestFn() settles with the upstream's reply: on success
\* retryRequest returns the response and the operation returns response.data;
\* on failure the interceptor throws its mapped error into retryRequest's catch
requestSettles(c, reply) ==
    LET n == Len(c.attempts) + 1
        logged == [c EXCEPT !.attempts = Append(@, reply)]
    IN  IF isSuccess(reply)
        THEN [logged EXCEPT !.pc = "done",
                            !.outcome = [kind |-> "return", data |-> Payload(n)]]
        ELSE retryRequestCatch(logged, handleAxiosError(AxiosError(reply, n)))

delayElapses_abortable(c) ==
    IF c.abandoned
    THEN [c EXCEPT !.pc = "done", !.outcome = [kind |-> "cancelled"]]
    ELSE [c EXCEPT !.pc = "request", !.retryCount = @ + 1]

\* the setTimeout of delay(ms) fires: return this.retryRequest(requestFn, retryCount + 1)
delayElapses(c) == [c EXCEPT !.pc = "request", !.retryCount = @ + 1]

\* new CharityAPIClient(config), with the limiter as constructed at start-up
InitClient ==
    /\ maxRequests = MaxReq
    /\ windowMs = MaxWindow
    /\ requests = EmptyMap
    /\ now = 0
    /\ last = [op |-> "init", key |-> "", val |-> 0, solo |-> 0, before |-> EmptyMap]
    /\ burst = [k \in Keys |-> 0]
    /\ admitted = [k \in Keys |-> [t \in 0..MaxTime |-> 0]]
    /\ solo = [k \in Keys |-> EmptyMap]
    /\ maxRetries \in 0..MaxRetries
    /\ retryDelay \in RetryDelays
    /\ call = IdleCall
    /\ calls = <<>>
    /\ inflight = <<>>

\* charityAPIClient.<operation>(...): retryRequest(requestFn) issues the first request
StartCall(op) ==
    /\ call.pc = "idle"
    /\ call' = [IdleCall EXCEPT !.pc = "request", !.op = op]
    /\ UNCHANGED <<limiterVars, serverVars, maxRetries, retryDelay>>

\* the upstream answers, or fails to answer, the request in flight
Respond(reply) ==
    /\ call.pc = "request"
    /\ call' = requestSettles(call, reply)
    /\ UNCHANGED <<limiterVars, serverVars, maxRetries, retryDelay>>

\* the backoff timer fires and the next request is issued
TimerFires ==
    /\ call.pc = "delay"
    /\ call' = delayElapses(call)
    /\ UNCHANGED <<limiterVars, serverVars, maxRetries, retryDelay>>

\* the caller stops waiting for the call.  retryRequest and delay take no
\* abort signal and keep no timer handle, so nothing in the client changes.
Abandon ==
    /\ call.pc \in {"request", "delay"}
    /\ ~call.abandoned
    /\ call' = [call EXCEPT !.abandoned = TRUE, !.attemptsAtAbandon = Len(call.attempts)]
    /\ UNCHANGED <<limiterVars, serverVars, maxRetries, retryDelay>>

NextClient ==
    \/ \E op \in Operations : StartCall(op)
    \/ \E reply \in Replies : Respond(reply)
    \/ TimerFires
    \/ Abandon

SpecClient == InitClient /\ [][NextClient]_vars

\* every request is answered or times out (axios is built with config.timeout)
\* and every timer fires
SpecClientFair ==
    /\ SpecClient
    /\ WF_vars(\E reply \in Replies : Respond(reply))
    /\ WF_vars(TimerFires)

\* ---- two callers on the one shared client -------------------------------

\* the two callers; charityAPIClient is one object shared by all handlers
CallIds == {"first", "second"}

\* what the upstream does with an attempt of either call
CallReplies == {r \in Replies : r.status \in {200, 503, Undefined}}

callSettles_sharedCounter(cs, id, reply) ==
    LET other == CHOOSE j \in CallIds : j # id
        seen == [cs[id] EXCEPT !.retryCount = Max(@, cs[other].retryCount)]
    IN  [cs EXCEPT ![id] = requestSettles(seen, reply)]

\* the request in flight of call id settles; retryCount is a parameter of that
\* call's own retryRequest invocation
callSettles(cs, id, reply) == [cs EXCEPT ![id] = requestSettles(cs[id], reply)]

\* the backoff timer of call id fires
callDelayElapses(cs, id) == [cs EXCEPT ![id] = delayElapses(cs[id])]

InitCalls ==
    /\ maxRequests = MaxReq
    /\ windowMs = MaxWindow
    /\ requests = EmptyMap
    /\ now = 0
    /\ last = [op |-> "init", key |-> "", val |-> 0, solo |-> 0, before |-> EmptyMap]
    /\ burst = [k \in Keys |-> 0]
    /\ admitted = [k \in Keys |-> [t \in 0..MaxTime |-> 0]]
    /\ solo = [k \in Keys |-> EmptyMap]
    /\ maxRetries \in 0..MaxRetries
    /\ retryDelay \in RetryDelays
    /\ call = IdleCall
    /\ calls = [id \in CallIds |-> IdleCall]
    /\ inflight = <<>>

\* a caller invokes an operation of the client, whatever the other call is doing
StartCallOf(id, op) ==
    /\ calls[id].pc = "idle"
    /\ calls' = [calls EXCEPT ![id] = [IdleCall EXCEPT !.pc = "request", !.op = op]]
    /\ UNCHANGED <<limiterVars, clientVars, inflight>>

RespondTo(id, reply) ==
    /\ calls[id].pc = "request"
    /\ calls' = callSettles(calls, id, reply)
    /\ UNCHANGED <<limiterVars, clientVars, inflight>>

TimerFiresFor(id) ==
    /\ calls[id].pc = "delay"
    /\ calls' = callDelayElapses(calls, id)
    /\ UNCHANGED <<limiterVars, clientVars, inflight>>

NextCalls ==
    \/ \E id \in CallIds : \E op \in Operations : StartCallOf(id, op)
    \/ \E id \in CallIds : \E reply \in CallReplies : RespondTo(id, reply)
    \/ \E id \in CallIds : TimerFiresFor(id)

SpecCalls == InitCalls /\ [][NextCalls]_vars

\* ---- the tool handlers ---------------------------------------------------

\* bounds of the server model
TicksPerWindow == 2      \* the clock moves in steps of windowMs / TicksPerWindow
MaxServerTicks == 3      \* and makes at most this many steps
MaxServerRetries == 1    \* config.maxRetries of the server's client

\* the handlers the CallTool request handler dispatches to
ToolHandlers == {"handleCharityLookup", "handlePublicCharityCheck",
                 "handleCharitySearch", "handleListOrganizations"}

\* the invocations in flight at once
Invocations == {"i1", "i2"}

\* the identifier each handler passes to checkRateLimit and to getResetTime
rateLimitKey_default == [h \in ToolHandlers |-> "global"]

rateLimitKey ==
    [handleCharityLookup |-> "charity_lookup",
     handlePublicCharityCheck |-> "public_charity_check",
     handleCharitySearch |-> "charity_search",
     handleListOrganizations |-> "list_organizations"]

\* the client operation each handler awaits
clientOperation ==
    [handleCharityLookup |-> "getOrganizationByEIN",
     handlePublicCharityCheck |-> "checkPublicCharity",
     handleCharitySearch |-> "searchCharities",
     handleListOrganizations |-> "listOrganizations"]

\* the head of each handler's rejection text (the lookup's follows a clock emoji)
rateLimitText ==
    [handleCharityLookup |-> "Rate limit exceeded for charity lookup",
     handlePublicCharityCheck |-> "Rate limit exceeded for public charity check",
     handleCharitySearch |-> "Rate limit exceeded for charity search",
     handleListOrganizations |-> "Rate limit exceeded for list organizations"]

\* new Date(ms).toISOString(), for an instant of the first day of the clock
pad2(n) == IF n < 10 THEN "0" \o ToString(n) ELSE ToString(n)
pad3(n) == IF n < 10 THEN "00" \o ToString(n)
           ELSE IF n < 100 THEN "0" \o ToString(n) ELSE ToString(n)
toISOString(ms) ==
    "1970-01-01T" \o pad2(ms \div 3600000) \o ":" \o pad2((ms \div 60000) % 60)
        \o ":" \o pad2((ms \div 1000) % 60) \o "." \o pad3(ms % 1000) \o "Z"

\* handleMCPError(error).message for the CharityAPIError a client call raised
handleMCPError(error) ==
    IF error.statusCode = 404 THEN <<"Charity not found with provided EIN">>
    ELSE IF error.statusCode = 429 THEN <<"Rate limit exceeded. Please try again later.">>
    ELSE <<"Charity API error: ">> \o error.message

\* the clock values of the server model
ServerStep == windowMs \div TicksPerWindow
ServerInstants == {n * ServerStep : n \in 0..MaxServerTicks}

\* an invocation that has not arrived
IdleInvocation ==
    [pc |-> "idle", handler |-> "none", valid |-> FALSE, asked |-> FALSE, ret |-> FALSE,
     resetTime |-> 0, call |-> IdleCall, result |-> [isError |-> FALSE, text |-> <<>>]]

\* a handler from its entry to its first await: input validation, which on
\* failure ends the invocation with an error result, and then the call of
\* checkRateLimit, whose promise the handler awaits
enterHandler(handler, valid, map, t) ==
    IF ~valid
    THEN [inv |-> [IdleInvocation EXCEPT !.pc = "done", !.handler = handler,
                       !.result = [isError |-> TRUE, text |-> <<"Invalid input">>]],
          map |-> map]
    ELSE LET r == checkRateLimitOn(map, rateLimitKey[handler], t)
         IN  [inv |-> [IdleInvocation EXCEPT !.pc = "admit", !.handler = handler,
                           !.valid = TRUE, !.asked = TRUE, !.ret = r.ret],
              map |-> r.map]

afterAdmit_failOpen(inv, map) ==
    [inv EXCEPT !.pc = "upstream",
                !.call = [IdleCall EXCEPT !.pc = "request", !.op = clientOperation[inv.handler]]]

\* the handler resumes with checkRateLimit's result: on false it reads
\* getResetTime and returns the rejection, on true it calls the client
afterAdmit(inv, map) ==
    IF ~inv.ret
    THEN LET resetTime == getResetTimeOn(map, rateLimitKey[inv.handler])
         IN  [inv EXCEPT !.pc = "done", !.resetTime = resetTime,
                         !.result = [isError |-> TRUE,
                                     text |-> <<rateLimitText[inv.handler],
                                                ". Please try again after ",
                                                toISOString(resetTime), ".">>]]
    ELSE [inv EXCEPT !.pc = "upstream",
                     !.call = [IdleCall EXCEPT !.pc = "request",
                                               !.op = clientOperation[inv.handler]]]

\* the handler's awaited client call moves on; when it is over the handler
\* formats the payload, or its catch block turns the error into an error result
afterClient(inv, c) ==
    IF c.pc # "done" THEN [inv EXCEPT !.call = c]
    ELSE IF c.outcome.kind = "return"
    THEN [inv EXCEPT !.pc = "done", !.call = c,
                     !.result = [isError |-> FALSE, text |-> <<"formatted response">>]]
    ELSE [inv EXCEPT !.pc = "done", !.call = c,
                     !.result = [isError |-> TRUE, text |-> handleMCPError(c.outcome.error)]]

\* the server after initializeCharityAPIClient, either just started or with
\* maxRequests - 1 requests of every tool admitted at the instant the clock
\* starts from
InitServer ==
    /\ maxRequests = 100
    /\ windowMs = 60 * 1000
    /\ \E backlog \in {0, 100 - 1} :
          /\ requests = IF backlog = 0 THEN EmptyMap
                        ELSE [k \in {rateLimitKey[h] : h \in ToolHandlers} |->
                                 [n \in 1..backlog |-> 0]]
          /\ admitted = [h \in ToolHandlers |->
                            [t \in ServerInstants |-> IF t = 0 THEN backlog ELSE 0]]
    /\ now = 0
    /\ last = [op |-> "init", key |-> "", val |-> 0, solo |-> 0, before |-> requests]
    /\ burst = [k \in Keys |-> 0]
    /\ solo = [k \in Keys |-> EmptyMap]
    /\ maxRetries = MaxServerRetries
    /\ retryDelay = 1
    /\ call = IdleCall
    /\ calls = <<>>
    /\ inflight = [i \in Invocations |-> IdleInvocation]

\* Date.now() moves on
ServerTick ==
    /\ now < MaxServerTicks * ServerStep
    /\ now' = now + ServerStep
    /\ last' = [op |-> "tick", key |-> "", val |-> 0, solo |-> 0, before |-> requests]
    /\ admitted' = [h \in ToolHandlers |-> [t \in ServerInstants |->
                        IF t + windowMs > now + ServerStep THEN admitted[h][t] ELSE 0]]
    /\ UNCHANGED <<clientVars, serverVars, requests, windowMs, maxRequests, burst, solo>>

\* a CallTool request arrives and its handler runs up to its first await
HandlerEnters(i, handler, valid) ==
    LET e == enterHandler(handler, valid, requests, now)
    IN  /\ inflight[i].pc = "idle"
        /\ inflight' = [inflight EXCEPT ![i] = e.inv]
        /\ requests' = e.map
        /\ last' = IF valid
                   THEN [op |-> "admit", key |-> rateLimitKey[handler], val |-> e.inv.ret,
                         solo |-> e.inv.ret, before |-> requests]
                   ELSE [op |-> "invalid", key |-> "", val |-> 0, solo |-> 0,
                         before |-> requests]
        /\ admitted' = IF valid /\ e.inv.ret
                       THEN [admitted EXCEPT ![handler][now] = @ + 1]
                       ELSE admitted
        /\ UNCHANGED <<clientVars, calls, windowMs, maxRequests, now, burst, solo>>

\* the await of checkRateLimit resumes
HandlerResumes(i) ==
    LET inv == afterAdmit(inflight[i], requests)
    IN  /\ inflight[i].pc = "admit"
        /\ inflight' = [inflight EXCEPT ![i] = inv]
        /\ last' = IF inflight[i].ret
                   THEN [op |-> "call", key |-> "", val |-> 0, solo |-> 0, before |-> requests]
                   ELSE [op |-> "resetAt", key |-> rateLimitKey[inflight[i].handler],
                         val |-> inv.resetTime, solo |-> inv.resetTime, before |-> requests]
        /\ UNCHANGED <<clientVars, calls, requests, windowMs, maxRequests, now,
                       burst, admitted, solo>>

UpstreamSettles_refund(i, reply) ==
    LET inv == afterClient(inflight[i], requestSettles(inflight[i].call, reply))
        key == rateLimitKey[inflight[i].handler]
        bucket == MapGet(requests, key)
    IN  /\ inflight[i].pc = "upstream"
        /\ inflight[i].call.pc = "request"
        /\ inflight' = [inflight EXCEPT ![i] = inv]
        /\ requests' = IF inv.pc = "done" /\ inv.result.isError /\ bucket # <<>>
                       THEN MapSet(requests, key, SubSeq(bucket, 1, Len(bucket) - 1))
                       ELSE requests
        /\ last' = [op |-> "call", key |-> "", val |-> 0, solo |-> 0, before |-> requests]
        /\ UNCHANGED <<clientVars, calls, windowMs, maxRequests, now,
                       burst, admitted, solo>>

\* the upstream answers, or fails to answer, the request of an awaited call
UpstreamSettles(i, reply) ==
    LET inv == afterClient(inflight[i], requestSettles(inflight[i].call, reply))
    IN  /\ inflight[i].pc = "upstream"
        /\ inflight[i].call.pc = "request"
        /\ inflight' = [inflight EXCEPT ![i] = inv]
        /\ last' = [op |-> "call", key |-> "", val |-> 0, solo |-> 0, before |-> requests]
        /\ UNCHANGED <<clientVars, calls, requests, windowMs, maxRequests, now,
                       burst, admitted, solo>>

\* the backoff timer of an awaited call fires
UpstreamTimer(i) ==
    /\ inflight[i].pc = "upstream"
    /\ inflight[i].call.pc = "delay"
    /\ inflight' = [inflight EXCEPT ![i] = afterClient(@, delayElapses(@.call))]
    /\ last' = [op |-> "call", key |-> "", val |-> 0, solo |-> 0, before |-> requests]
    /\ UNCHANGED <<clientVars, calls, requests, windowMs, maxRequests, now,
                   burst, admitted, solo>>

\* the upstream's replies to the handlers' calls
ServerReplies == {r \in Replies : r.status \in {200, 503}}

NextServer ==
    \/ ServerTick
    \/ \E i \in Invocations : \E handler \in ToolHandlers : \E valid \in BOOLEAN :
           HandlerEnters(i, handler, valid)
    \/ \E i \in Invocations : HandlerResumes(i)
    \/ \E i \in Invocations : \E reply \in ServerReplies : UpstreamSettles(i, reply)
    \/ \E i \in Invocations : UpstreamTimer(i)
    \/ cleanup

SpecServer == InitServer /\ [][NextServer]_vars

\* ---- properties of the rate limiter ------------------------------------

\* the bucket of key k in a map, and the set of its timestamps
Bucket(map, k) == IF k \in DOMAIN map THEN map[k] ELSE <<>>
Stamps(s) == {s[i] : i \in DOMAIN s}
Oldest(s) == CHOOSE m \in Stamps(s) : \A x \in Stamps(s) : m <= x
\* the number of stored timestamps of s that are less than windowMs old at t
CountValid(s, t) == Cardinality({i \in DOMAIN s : t - s[i] < windowMs})
Admitted(k) == last.op = "admit" /\ last.key = k /\ last.val = TRUE
Denied(k) == last.op = "admit" /\ last.key = k /\ last.val = FALSE

RECURSIVE SumOver(_, _)
SumOver(f, S) ==
    IF S = {} THEN 0
    ELSE LET x == CHOOSE y \in S : TRUE IN f[x] + SumOver(f, S \ {x})

\* C1 (window capacity): with maxRequests = N >= 1, counting the admit(k)
\* calls made at one clock value from the moment k's bucket was empty, the
\* first N of them return true and the (N+1)-th and every later one false.
C1_WindowCapacity ==
    \A k \in Keys :
        (last.op = "admit" /\ last.key = k /\ maxRequests >= 1 /\ burst[k] >= 1)
            => (last.val = (burst[k] <= maxRequests))

C1_Witness ==
    \E k \in Keys : Denied(k) /\ maxRequests = 2 /\ burst[k] = maxRequests + 2

\* C2 (sliding-window cap): for every key k and every instant T, the number
\* of admit(k) calls that returned true at times t with T - windowMs < t <= T
\* is at most maxRequests.  Checked in every state, that is at every clock
\* value and after every sequence of calls; the log is complete for each
\* window ending at the current instant or later.
C2_SlidingWindowCap ==
    \A k \in Keys : \A T \in 0..MaxTime :
        SumOver(admitted[k], {t \in 0..MaxTime : T - windowMs < t /\ t <= T}) <= maxRequests

C2_Witness ==
    \E k \in Keys :
        /\ Admitted(k)
        /\ maxRequests >= 1
        /\ SumOver(admitted[k], {t \in 0..MaxTime : now - windowMs < t /\ t <= now}) = maxRequests
        /\ Len(Bucket(last.before, k)) = maxRequests
        /\ \E j \in Keys \ {k} : SumOver(admitted[j], 0..MaxTime) > 0

\* C3 (expiry): if k's bucket holds maxRequests >= 1 timestamps and the clock
\* is at least windowMs past the oldest of them, admit(k) returns true; an
\* entry exactly windowMs old counts as expired.
C3_Expiry ==
    \A k \in Keys :
        (/\ last.op = "admit" /\ last.key = k
         /\ maxRequests >= 1
         /\ Len(Bucket(last.before, k)) = maxRequests
         /\ now - Bucket(last.before, k)[1] >= windowMs)
            => last.val = TRUE

C3_Witness ==
    \E k \in Keys :
        /\ Admitted(k)
        /\ maxRequests >= 1
        /\ Len(Bucket(last.before, k)) = maxRequests
        /\ now - Bucket(last.before, k)[1] = windowMs


\* C4 (key isolation): an admit(a) call, allowed or denied, leaves the stored
\* bucket of every other key b untouched, and every admit, remaining and
\* resetAt result for a key equals the result a limiter that never saw a call
\* on any other key gives; a full bucket of a does not make admit(b) false.
C4_KeyIsolation ==
    /\ last.op = "admit" =>
          \A b \in Keys \ {last.key} :
              /\ (b \in DOMAIN requests) = (b \in DOMAIN last.before)
              /\ Bucket(requests, b) = Bucket(last.before, b)
    /\ \A k \in Keys :
          /\ (k \in DOMAIN requests) = (k \in DOMAIN solo[k])
          /\ Bucket(requests, k) = Bucket(solo[k], k)
    /\ last.op \in {"admit", "remaining", "resetAt"} => last.val = last.solo

C4_Witness ==
    \E a \in Keys : \E b \in Keys \ {a} :
        /\ maxRequests >= 1
        /\ CountValid(Bucket(requests, a), now) = maxRequests
        /\ Admitted(b)
        /\ Len(Bucket(requests, b)) = 1

\* C5 (admission and quota consumption are one step): admit(k) returning true
\* appends exactly one timestamp, equal to the current time, to k's bucket
\* (after the still-valid entries the call counted) and touches no other key;
\* admit(k) returning false leaves the whole map, stale entries included,
\* exactly as it was.
C5_AdmitIsOneStep ==
    \A k \in Keys :
        /\ Admitted(k) =>
              /\ k \in DOMAIN requests
              /\ requests[k] = Append(SelectSeq(Bucket(last.before, k),
                                                LAMBDA x : now - x < windowMs), now)
              /\ Cardinality({i \in DOMAIN requests[k] : requests[k][i] = now})
                    = Cardinality({i \in DOMAIN Bucket(last.before, k) :
                                       Bucket(last.before, k)[i] = now}) + 1
              /\ \A j \in Keys \ {k} :
                    (j \in DOMAIN requests) = (j \in DOMAIN last.before)
                    /\ Bucket(requests, j) = Bucket(last.before, j)
        /\ Denied(k) => requests = last.before

C5_Witness ==
    \E k \in Keys :
        /\ Admitted(k)
        /\ Len(Bucket(last.before, k)) = 2
        /\ CountValid(Bucket(last.before, k), now) = 1
        /\ Len(requests[k]) = 2

\* C6 (remaining): remaining(k) equals max(0, maxRequests - number of stored
\* timestamps of k less than windowMs old); it is never negative, equals
\* maxRequests for an unseen key, drops by exactly 1 on each successful
\* admit(k) with the clock fixed, and is maxRequests - 1 right after the first
\* admit of a fresh key.
C6_Remaining ==
    /\ last.op = "remaining" =>
          /\ last.val = Max(0, maxRequests - CountValid(Bucket(requests, last.key), now))
          /\ last.val >= 0
          /\ (last.key \notin DOMAIN requests => last.val = maxRequests)
    /\ \A k \in Keys :
          Admitted(k) =>
              /\ getRemainingRequestsOn(last.before, k, now)
                    - getRemainingRequestsOn(requests, k, now) = 1
              /\ (k \notin DOMAIN last.before =>
                    getRemainingRequestsOn(requests, k, now) = maxRequests - 1)

C6_Witness ==
    /\ last.op = "remaining"
    /\ maxRequests = 2
    /\ last.val = 1
    /\ Len(Bucket(requests, last.key)) = 2

\* C7 (queries are read-only): a remaining(k) or resetAt(k) call, for a seen
\* or unseen key at any clock value, leaves the bucket map exactly as it was:
\* no key is created and no timestamp is pruned or added.
C7_QueriesReadOnly ==
    last.op \in {"remaining", "resetAt"} =>
        /\ requests = last.before
        /\ DOMAIN requests = DOMAIN last.before

C7_Witness ==
    /\ last.op = "remaining"
    /\ last.key \notin DOMAIN requests
    /\ \E j \in DOMAIN requests : CountValid(requests[j], now) < Len(requests[j])

\* C8 (resetAt): resetAt(k) is 0 when k has no stored timestamp and otherwise
\* the smallest stored timestamp plus windowMs, taken on the unpruned bucket;
\* right after the first admit(k) at t0 it is t0 + windowMs, an admission made
\* while that oldest entry is still in the window leaves it unchanged, and once
\* the oldest entry is stale but still stored the value is not in the future.
C8_ResetAt ==
    /\ last.op = "resetAt" =>
          LET b == Bucket(requests, last.key)
          IN  /\ last.val = IF b = <<>> THEN 0 ELSE Oldest(b) + windowMs
              /\ (b # <<>> /\ now - Oldest(b) >= windowMs) => last.val <= now
    /\ \A k \in Keys :
          Admitted(k) =>
              LET b == Bucket(last.before, k)
              IN  /\ b = <<>> => getResetTimeOn(requests, k) = now + windowMs
                  /\ (b # <<>> /\ now - Oldest(b) < windowMs) =>
                        getResetTimeOn(requests, k) = getResetTimeOn(last.before, k)

C8_Witness ==
    /\ last.op = "resetAt"
    /\ Len(Bucket(requests, last.key)) = 2
    /\ Bucket(requests, last.key)[1] < Bucket(requests, last.key)[2]
    /\ last.val <= now

\* C9 as stated (a past resetAt means immediately available): in every
\* reachable state and for every key k, resetAt(k) <= now implies that
\* admit(k) called at that time returns true.
C9_PastResetMeansAvailable ==
    \A k \in Keys :
        getResetTimeOn(requests, k) <= now => checkRateLimitOn(requests, k, now).ret = TRUE

\* C9 as amended: the same, for a limiter built with maxRequests >= 1.
C9_PastResetMeansAvailableIfQuota ==
    maxRequests >= 1 =>
        \A k \in Keys :
            getResetTimeOn(requests, k) <= now => checkRateLimitOn(requests, k, now).ret = TRUE

C9_Witness ==
    \E k \in Keys :
        /\ Admitted(k)
        /\ Len(Bucket(last.before, k)) = maxRequests
        /\ getResetTimeOn(last.before, k) > 0
        /\ getResetTimeOn(last.before, k) <= now

\* C10 (sweep postcondition): after cleanup at time now the map holds exactly
\* the keys that had a timestamp less than windowMs old, each with a non-empty
\* bucket made of exactly those timestamps in their old order; keys whose
\* timestamps were all older are gone and no still-valid timestamp is dropped.
C10_SweepPostcondition ==
    last.op = "cleanup" =>
        /\ DOMAIN requests =
              {k \in DOMAIN last.before :
                  \E i \in DOMAIN last.before[k] : now - last.before[k][i] < windowMs}
        /\ \A k \in DOMAIN requests :
              /\ requests[k] # <<>>
              /\ requests[k] = SelectSeq(last.before[k], LAMBDA x : now - x < windowMs)

C10_Witness ==
    /\ last.op = "cleanup"
    /\ \E k \in DOMAIN last.before : k \notin DOMAIN requests
    /\ \E k \in DOMAIN requests :
          Len(last.before[k]) = 2 /\ Len(requests[k]) = 1

\* C11 (sweep idempotence): cleanup on an empty limiter leaves it empty, a
\* second cleanup at the same clock value leaves the map exactly as the first
\* one left it, and cleanup can always be called (it never raises).
C11_SweepIdempotent ==
    /\ ENABLED cleanup
    /\ last.op = "cleanup" =>
          /\ cleanupOn(requests, now) = requests
          /\ DOMAIN cleanupOn(requests, now) = DOMAIN requests
          /\ (last.before = EmptyMap => requests = EmptyMap)

C11_Witness ==
    /\ last.op = "cleanup"
    /\ DOMAIN requests = Keys
    /\ \E k \in Keys : Len(requests[k]) < Len(last.before[k])

\* C12 (zero quota): with maxRequests = 0, whatever calls and clock advances
\* came before, every admit returns false and every remaining returns 0, for
\* every key.
C12_ZeroQuota ==
    maxRequests = 0 =>
        /\ last.op = "admit" => last.val = FALSE
        /\ last.op = "remaining" => last.val = 0
        /\ \A k \in Keys :
              /\ checkRateLimitOn(requests, k, now).ret = FALSE
              /\ getRemainingRequestsOn(requests, k, now) = 0

C12_Witness ==
    /\ maxRequests = 0
    /\ last.op = "admit"
    /\ last.val = FALSE
    /\ now = MaxTime
    /\ requests = EmptyMap

\* ---- properties of the HTTP client --------------------------------------

Done == call.pc = "done"
Raised == call.pc = "done" /\ call.outcome.kind = "throw"
Returned == call.pc = "done" /\ call.outcome.kind = "return"
\* the specification's classes of failed attempts
RetryableReply(r) == r.kind = "none" \/ r.status >= 500 \/ r.status = 429
ClientErrorReply(r) == r.kind = "response" /\ r.status >= 400 /\ r.status < 500 /\ r.status # 429
AllAttempts(P(_)) == \A i \in DOMAIN call.attempts : P(call.attempts[i])
\* requests handed to the upstream so far
Issued == Len(call.attempts) + (IF call.pc = "request" THEN 1 ELSE 0)

\* C13 (retry bound): a call all of whose attempts fail with one and the same
\* retryable failure (status >= 500, 429, or no response) ends only after
\* exactly maxRetries + 1 attempts, by raising a CharityAPIError; when that
\* failure is a 500 response the error's statusCode is 500.
C13_RetryBound ==
    \A r \in Replies :
        (Done /\ RetryableReply(r) /\ AllAttempts(LAMBDA a : a = r)) =>
            /\ Len(call.attempts) = maxRetries + 1
            /\ call.outcome.kind = "throw"
            /\ call.outcome.error.name = "CharityAPIError"
            /\ (r.status = 500 => call.outcome.error.statusCode = 500)

C13_Witness ==
    /\ Raised
    /\ maxRetries = 2
    /\ Len(call.attempts) = 3
    /\ AllAttempts(LAMBDA a : a.status = 500)
    /\ call.outcome.error.statusCode = 500

\* C14 (non-retryable short-circuit): once the upstream has answered the
\* first attempt with a 4xx status other than 429, the call is over: exactly
\* one attempt, no backoff wait, and a CharityAPIError with that status
\* raised, whatever maxRetries is.
C14_NonRetryableShortCircuit ==
    (call.attempts # <<>> /\ ClientErrorReply(call.attempts[1])) =>
        /\ Raised
        /\ Len(call.attempts) = 1
        /\ call.waits = <<>>
        /\ call.outcome.error.name = "CharityAPIError"
        /\ call.outcome.error.statusCode = call.attempts[1].status

\* C15 (backoff schedule): the i-th wait (i = 0, 1, ...) follows the failed
\* attempt i and lasts retryDelay * 2^i; a call that made n attempts and is
\* over made exactly n - 1 waits, so no wait follows the final attempt.
C15_BackoffSchedule ==
    /\ \A i \in DOMAIN call.waits :
          /\ call.waits[i] = retryDelay * (2 ^ (i - 1))
          /\ i \in DOMAIN call.attempts
          /\ ~isSuccess(call.attempts[i])
    /\ Done => Len(call.waits) = Len(call.attempts) - 1
    /\ ~Done => Len(call.waits) = Len(call.attempts)

C15_Witness ==
    /\ Done
    /\ retryDelay = 100
    /\ Len(call.attempts) = 4
    /\ call.waits = <<100, 200, 400>>

\* C16 (success ends the call): a successful attempt is the last attempt and
\* the call returns its body; a call whose attempts all failed retryably is
\* not given up before maxRetries + 1 attempts, so j <= maxRetries retryable
\* failures followed by a success give the payload after exactly j + 1
\* attempts and nothing is raised.
C16_SuccessEndsCall ==
    /\ \A i \in DOMAIN call.attempts :
          isSuccess(call.attempts[i]) =>
              /\ i = Len(call.attempts)
              /\ Returned
              /\ call.outcome.data = Payload(i)
              /\ Len(call.waits) = i - 1
    /\ (Raised /\ AllAttempts(RetryableReply)) => Len(call.attempts) = maxRetries + 1

C16_Witness ==
    /\ Returned
    /\ maxRetries = 2
    /\ retryDelay = 100
    /\ Len(call.attempts) = 3
    /\ call.attempts[1].kind = "none"
    /\ call.attempts[2].kind = "none"
    /\ call.waits = <<100, 200>>
    /\ call.outcome.data = Payload(3)

\* C17 (error classification table): the raised error's message is fixed by
\* the status of the failed response: the six listed statuses have their own
\* text, every other status and a missing response give 'API request failed: '
\* followed by the underlying failure's text.
MessageTable ==
    [s \in {400, 401, 403, 404, 429, 500} |->
        IF s = 400 THEN <<"Invalid request parameters">>
        ELSE IF s = 401 THEN <<"Invalid API key or unauthorized">>
        ELSE IF s = 403 THEN <<"Access forbidden - check API permissions">>
        ELSE IF s = 404 THEN <<"Charity not found">>
        ELSE IF s = 429 THEN <<"Rate limit exceeded">>
        ELSE <<"Internal server error">>]

C17_ErrorTable ==
    Raised =>
        LET n == Len(call.attempts)
            r == call.attempts[n]
        IN  call.outcome.error.message =
                IF r.kind = "response" /\ r.status \in DOMAIN MessageTable
                THEN MessageTable[r.status]
                ELSE <<"API request failed: ">> \o AxiosError(r, n).message

C17_Witness ==
    /\ Raised
    /\ call.attempts[1].status = 429
    /\ call.attempts[Len(call.attempts)].status = 503
    /\ call.outcome.error.message =
          <<"API request failed: ", "Request failed with status code", "503">>

\* C18 (the raised error describes the last attempt): its statusCode is the
\* status of the final failed attempt, absent when that attempt got no
\* response, and its cause is that attempt's own underlying error, whatever
\* the earlier attempts failed with.
C18_LastAttemptError ==
    Raised =>
        LET n == Len(call.attempts)
            r == call.attempts[n]
        IN  /\ call.outcome.error.statusCode =
                  (IF r.kind = "response" THEN r.status ELSE Undefined)
            /\ call.outcome.error.originalError.attempt = n
            /\ call.outcome.error.originalError = AxiosError(r, n)

C18_Witness ==
    /\ Raised
    /\ Len(call.attempts) >= 2
    /\ call.attempts[1].status = 500
    /\ call.attempts[Len(call.attempts)].kind = "none"
    /\ call.outcome.error.statusCode = Undefined

\* C19 (exactly one outcome per call): a call makes at most maxRetries + 1
\* attempts; nothing reaches the caller before the call is over; when it is
\* over the outcome is either the payload of its last attempt, which
\* succeeded, or one CharityAPIError for its last attempt, which failed; the
\* outcome never changes afterwards; and every call that was started is
\* eventually over.
C19_OneOutcomeState ==
    /\ Len(call.attempts) <= maxRetries + 1
    /\ \A i \in DOMAIN call.attempts :
          i < Len(call.attempts) => ~isSuccess(call.attempts[i])
    /\ ~Done => call.outcome.kind = "none"
    /\ Done =>
          LET n == Len(call.attempts)
          IN  \/ /\ call.outcome.kind = "return"
                 /\ isSuccess(call.attempts[n])
                 /\ call.outcome.data = Payload(n)
              \/ /\ call.outcome.kind = "throw"
                 /\ ~isSuccess(call.attempts[n])
                 /\ call.outcome.error.name = "CharityAPIError"

C19_OneOutcome ==
    /\ []C19_OneOutcomeState
    /\ [][call.pc = "done" => call' = call]_vars
    /\ (call.pc # "idle") ~> (call.pc = "done")

C19_Witness ==
    /\ Raised
    /\ call.op = "listOrganizations"
    /\ maxRetries = 3
    /\ Len(call.attempts) = maxRetries + 1

C22_SweepKeepsAdmissions ==
    \A k \in Keys :
        /\ \A t \in 0..MaxTime :
              now - t < windowMs =>
                  Cardinality({i \in DOMAIN Bucket(requests, k) : Bucket(requests, k)[i] = t})
                      = admitted[k][t]
        /\ SumOver(admitted[k], {t \in 0..MaxTime : now - t < windowMs}) <= maxRequests

C22_Witness ==
    /\ last.op = "cleanup"
    /\ \E k \in DOMAIN last.before : k \notin DOMAIN requests
    /\ \E k \in DOMAIN requests :
          /\ Len(last.before[k]) = 2
          /\ Len(requests[k]) = 1
          /\ requests[k][1] < now
          /\ admitted[k][requests[k][1]] = 1

\* C24 as stated (freshness after read): right after any operation that reads
\* key k's bucket, admit (allowed or denied) or remaining, every timestamp
\* stored in k's bucket is less than windowMs old.
C24_FreshAfterRead ==
    last.op \in {"admit", "remaining"} =>
        \A i \in DOMAIN Bucket(requests, last.key) :
            now - Bucket(requests, last.key)[i] < windowMs

\* C24 as amended: right after admit(k), allowed or denied, every timestamp
\* stored in k's bucket is less than windowMs old; remaining(k) counts the
\* fresh timestamps only but stores nothing, so the stale ones stay stored.
C24_FreshAfterAdmit ==
    /\ last.op = "admit" =>
          \A i \in DOMAIN Bucket(requests, last.key) :
              now - Bucket(requests, last.key)[i] < windowMs
    /\ last.op = "remaining" =>
          /\ Bucket(requests, last.key) = Bucket(last.before, last.key)
          /\ last.val = Max(0, maxRequests - CountValid(Bucket(requests, last.key), now))

C24_Witness ==
    \E k \in Keys :
        /\ Admitted(k)
        /\ maxRequests = 2
        /\ Len(Bucket(last.before, k)) = 2
        /\ CountValid(Bucket(last.before, k), now) = 0
        /\ requests[k] = <<now>>

\* C25 as stated (bucket lifecycle): a key's bucket comes into existence at
\* the first admission attempt for the key, is removed only by a sweep that
\* finds it empty after pruning, and in between its contents change only by a
\* successful admit appending one new timestamp.
C25_Lifecycle ==
    \A k \in Keys :
        LET was == k \in DOMAIN last.before
            is == k \in DOMAIN requests
        IN  /\ (last.op = "admit" /\ last.key = k /\ ~was) => is
            /\ (~was /\ is) => (last.op = "admit" /\ last.key = k)
            /\ (was /\ ~is) =>
                  (last.op = "cleanup" /\ CountValid(last.before[k], now) = 0)
            /\ (was /\ is /\ requests[k] # last.before[k]) =>
                  /\ Admitted(k)
                  /\ requests[k] = Append(last.before[k], now)

\* C25 as amended: a key's bucket comes into existence at the first successful
\* admit for the key (a denied attempt creates nothing), is removed only by a
\* sweep that finds no timestamp of it less than windowMs old, and in between
\* its contents change only by a successful admit, which drops the timestamps
\* that are windowMs old or older and appends one new timestamp, or by a
\* sweep, which drops the timestamps that are windowMs old or older.
C25_LifecycleWithPruning ==
    \A k \in Keys :
        LET was == k \in DOMAIN last.before
            is == k \in DOMAIN requests
            kept == SelectSeq(Bucket(last.before, k), LAMBDA x : now - x < windowMs)
        IN  /\ (last.op = "admit" /\ last.key = k /\ ~was) => (is = last.val)
            /\ (~was /\ is) => (Admitted(k) /\ requests[k] = <<now>>)
            /\ (was /\ ~is) => (last.op = "cleanup" /\ kept = <<>>)
            /\ (was /\ is /\ requests[k] # last.before[k]) =>
                  \/ Admitted(k) /\ requests[k] = Append(kept, now)
                  \/ last.op = "cleanup" /\ requests[k] = kept /\ kept # <<>>
            /\ is => requests[k] # <<>>

C25_Witness ==
    /\ last.op = "cleanup"
    /\ maxRequests = 3
    /\ \E k \in DOMAIN requests :
          /\ Len(last.before[k]) = 3
          /\ Len(requests[k]) = 1
          /\ requests[k][1] < now

\* C28 (stored bucket size bound): in every reachable state and for every
\* key, the number of stored timestamps, stale ones included, is at most
\* maxRequests.
C28_BucketSizeBound ==
    \A k \in Keys : Len(Bucket(requests, k)) <= maxRequests

C28_Witness ==
    \E k \in Keys :
        /\ maxRequests = 3
        /\ Len(Bucket(requests, k)) = maxRequests
        /\ CountValid(Bucket(requests, k), now) = 1
        /\ last.op = "admit"
        /\ last.key # k

\* C29 as stated (a denial comes with a future retry time): whenever admit(k)
\* returns false at time now, resetAt(k) read right afterwards is strictly
\* greater than now, never 0 and never a past instant.
C29_DenialHasFutureReset ==
    \A k \in Keys : Denied(k) => getResetTimeOn(requests, k) > now

\* C29 as amended: the same, for a limiter built with maxRequests >= 1 and
\* resetAt read at the clock value of the denial.
C29_DenialHasFutureResetIfQuota ==
    maxRequests >= 1 =>
        \A k \in Keys :
            Denied(k) =>
                /\ getResetTimeOn(requests, k) > now
                /\ getResetTimeOn(requests, k) <= now + windowMs
                /\ getResetTimeOn(requests, k) # 0

C29_Witness ==
    \E k \in Keys :
        /\ Denied(k)
        /\ maxRequests >= 1
        /\ now = MaxTime
        /\ getResetTimeOn(requests, k) = now + 1
        /\ \E j \in Keys \ {k} : getResetTimeOn(requests, j) <= now /\ j \in DOMAIN requests

\* ---- properties of concurrent client calls -------------------------------

\* the record a call alone on the client has after the replies rs, starting
\* from the record c with its request in flight
RECURSIVE Alone(_, _)
Alone(c, rs) ==
    IF rs = <<>> THEN c
    ELSE LET d == requestSettles(c, Head(rs))
         IN  IF Tail(rs) = <<>> THEN d ELSE Alone(delayElapses(d), Tail(rs))

\* C23 (client calls are independent): of two calls on the one client,
\* concurrent or one after the other, each has its own attempt counter and
\* backoff sequence: each makes at most maxRetries + 1 attempts, its i-th wait
\* (i = 0, 1, ...) lasts retryDelay * 2^i, a call is not given up before its
\* own maxRetries + 1 attempts failed, and each call's record is the one the
\* same replies give a call that is alone on the client.
C23_IndependentCalls ==
    \A id \in CallIds :
        LET c == calls[id]
            n == Len(c.attempts)
            first == [IdleCall EXCEPT !.pc = "request", !.op = c.op]
        IN  /\ n <= maxRetries + 1
            /\ \A i \in DOMAIN c.waits : c.waits[i] = retryDelay * (2 ^ (i - 1))
            /\ (c.pc = "done" /\ c.outcome.kind = "throw") => n = maxRetries + 1
            /\ c.pc = "request" => (c.retryCount = n /\ Len(c.waits) = n)
            /\ c.pc = "delay" => (c.retryCount = n - 1 /\ Len(c.waits) = n)
            /\ c.pc = "done" => (c.retryCount = n - 1 /\ Len(c.waits) = n - 1)
            /\ c.pc \in {"delay", "done"} => c = Alone(first, c.attempts)
            /\ (c.pc = "request" /\ n > 0) => c = delayElapses(Alone(first, c.attempts))

C23_Witness ==
    \E a \in CallIds : \E b \in CallIds \ {a} :
        /\ maxRetries = 3
        /\ retryDelay = 100
        /\ calls[a].pc = "done"
        /\ calls[a].outcome.kind = "throw"
        /\ calls[a].waits = <<100, 200, 400>>
        /\ calls[b].pc = "delay"
        /\ calls[b].retryCount = 0
        /\ calls[b].waits = <<100>>
        /\ calls[a].op = calls[b].op

\* ---- properties of the tool handlers -------------------------------------

\* the admissions of handler h at the instants of the window that ends at T
AdmittedIn(h, T) ==
    SumOver(admitted[h], {t \in ServerInstants : T - windowMs < t /\ t <= T})
\* the handlers that admit under key k
HandlersOf(k) == {h \in ToolHandlers : rateLimitKey[h] = k}
RECURSIVE SumAdmitted(_, _)
SumAdmitted(H, T) ==
    IF H = {} THEN 0
    ELSE LET h == CHOOSE x \in H : TRUE IN AdmittedIn(h, T) + SumAdmitted(H \ {h}, T)
Entered(i) == inflight[i].pc # "idle"
Rejected(i) == inflight[i].pc = "done" /\ inflight[i].asked /\ ~inflight[i].ret

\* C21 (atomic check-then-append under concurrency): with several handler
\* invocations in flight and in every interleaving of their steps, of clock
\* advances and of sweeps, each admit decides on the bucket as it is when the
\* admit is called and appends to that same bucket in the same step, so two
\* invocations never both take the last free slot and at most maxRequests
\* admissions of one key fall into one window.
C21_AtomicAdmit ==
    /\ \A h \in ToolHandlers : \A T \in ServerInstants :
          SumAdmitted(HandlersOf(rateLimitKey[h]), T) <= maxRequests
    /\ last.op = "admit" =>
          LET kept == SelectSeq(Bucket(last.before, last.key), LAMBDA x : now - x < windowMs)
          IN  /\ last.val = (Len(kept) < maxRequests)
              /\ last.val => requests = MapSet(last.before, last.key, Append(kept, now))
              /\ ~last.val => requests = last.before

C21_Witness ==
    \E i \in Invocations : \E j \in Invocations \ {i} :
        /\ inflight[i].pc = "admit"
        /\ inflight[j].pc = "admit"
        /\ inflight[i].handler = inflight[j].handler
        /\ inflight[i].ret
        /\ ~inflight[j].ret
        /\ Len(Bucket(requests, rateLimitKey[inflight[i].handler])) = maxRequests
        /\ now > 0

C27_AdmissionGatesUpstream ==
    /\ \A i \in Invocations :
          /\ inflight[i].call # IdleCall => (inflight[i].asked /\ inflight[i].ret)
          /\ inflight[i].pc = "upstream" => (inflight[i].asked /\ inflight[i].ret)
          /\ Rejected(i) =>
                /\ inflight[i].call = IdleCall
                /\ inflight[i].result.isError
                /\ inflight[i].result.text =
                      <<rateLimitText[inflight[i].handler], ". Please try again after ",
                        toISOString(inflight[i].resetTime), ".">>
    /\ last.op = "resetAt" =>
          /\ last.val = getResetTimeOn(requests, last.key)
          /\ \E i \in Invocations :
                /\ Rejected(i)
                /\ rateLimitKey[inflight[i].handler] = last.key
                /\ inflight[i].resetTime = last.val

C27_Witness ==
    \E i \in Invocations : \E j \in Invocations \ {i} :
        /\ Rejected(i)
        /\ inflight[i].handler = "handlePublicCharityCheck"
        /\ inflight[i].result.text =
              <<"Rate limit exceeded for public charity check", ". Please try again after ",
                "1970-01-01T00:01:30.000Z", ".">>
        /\ inflight[j].pc = "upstream"
        /\ inflight[j].call.op = "checkPublicCharity"
        /\ Len(inflight[j].call.attempts) = 1

\* C30 (quota accounting per handler invocation): the step in which an
\* invocation enters its handler appends exactly one timestamp, the current
\* time, to the handler's bucket if the input is valid and the request is
\* admitted, and changes no bucket otherwise; every later step of the
\* invocation, whatever the number of upstream attempts and retries and
\* whether the upstream call succeeds or fails, leaves every bucket as it is.
C30_QuotaAccounting ==
    [][\A i \in Invocations :
          /\ (~Entered(i) /\ Entered(i)') =>
                LET key == rateLimitKey[inflight'[i].handler]
                    kept == SelectSeq(Bucket(requests, key), LAMBDA x : now - x < windowMs)
                IN  IF inflight'[i].valid /\ inflight'[i].ret
                    THEN requests' = MapSet(requests, key, Append(kept, now))
                    ELSE requests' = requests
          /\ (Entered(i) /\ inflight'[i] # inflight[i]) => requests' = requests
          /\ (~inflight'[i].valid /\ Entered(i)') => ~inflight'[i].asked
      ]_vars

C30_Witness ==
    \E i \in Invocations : \E j \in Invocations \ {i} :
        /\ inflight[i].pc = "done"
        /\ inflight[i].ret
        /\ inflight[i].result.isError
        /\ Len(inflight[i].call.attempts) = maxRetries + 1
        /\ inflight[i].handler = "handleCharityLookup"
        /\ Bucket(requests, "charity_lookup") = <<now>>
        /\ inflight[j].pc = "done"
        /\ ~inflight[j].asked
        /\ inflight[j].handler = "handleCharityLookup"

====
